---------------------------- MODULE Spec2Model ----------------------------
(***************************************************************************)
(* A model of kitagentsdk's telemetry pipeline: KitClient (kit.py), the    *)
(* background telemetry worker, the shutdown drain, and the step gate      *)
(* KitLogCallback._on_step (callbacks.py) as driven through BaseAgent      *)
(* (agent.py).                                                             *)
(*                                                                         *)
(* Two threads run: "main", the caller thread (the training loop and the   *)
(* public API), and "worker", KitClient._telemetry_worker.  A step of the  *)
(* model is one atomic piece of one thread: a queue operation, a network   *)
(* call, a read or write of a signal file.  The flush functions are run by *)
(* both threads (by the worker in its loop, by main in shutdown), so their *)
(* locals are kept per thread.                                             *)
(*                                                                         *)
(* console and net hold what the LAST step printed and which network calls *)
(* it attempted; every action sets both.  sentM, sentL, sentP, the *Seq    *)
(* counters, shutdowns, anyFail and flushed are history variables: they    *)
(* record what the program did and never influence it.                     *)
(***************************************************************************)
EXTENDS Integers, Sequences, FiniteSets, TLC

\* ------------------------------------------------------------------ bounds
MaxMetrics == 2
MaxLogs == 2
MaxProgress == 3
MaxSteps == 3
MaxCmds == 2
MaxOffset == 1
MaxShutdowns == 2
MaxCapMetrics == 101
NSteps == 2
MaxRounds == 1

\* The batch cap of _flush_metrics (kit.py:114).
BatchCap == 100

Threads == {"main", "worker"}
None == "None"
\* None as the value of a flush local: no message, no progress update.
NoMsg == [id |-> 0, text |-> "None"]
NoStep == [id |-> 0, step |-> 0 - 1]

\* A console line: who prints it and what.
Line(tag, what) == <<tag, what>>

\* The inputs callers pass.
MetricInputs == {<<"loss", 10, 5>>, <<"loss", 20, 4>>}
ProgressInputs == {5, 12}
EventInputs == {<<"CUSTOM_EVENT", "info">>}
Commands == {"none", "stop", "pause", "resume"}

VARIABLES
    api_endpoint, api_key, run_id,   \* KitClient.__init__: is the setting present
    metrics_queue, log_queue, progress_queue,
    stop_event,                      \* KitClient._stop_event is set
    stop_file, pause_file,           \* STOP_REQUESTED / PAUSE_REQUESTED exist
    pc,                              \* where each thread is
    batch, msg, latest_step,         \* locals of the flush functions, per thread
    cmd,                             \* the worker's local cmd
    nCmds,                           \* commands the backend has handed out
    num_timesteps, offset, agent,    \* KitLogCallback: counter, offset, self.agent
    last_logged_pct,                 \* KitLogCallback._last_logged_pct
    ret,                             \* what the last _on_step call returned
    metSeq, logSeq, progSeq,         \* items enqueued so far, per queue
    shutdowns,                       \* calls of shutdown() so far
    sentM, sentL, sentP,             \* ids carried by the outbound calls so far
    anyFail,                         \* some outbound call has failed
    flushed,                         \* flush functions each thread finished this cycle
    run,                             \* where orchestrate_sb3_training is
    emitted,                         \* events orchestrate_sb3_training emitted so far
    uploaded,                        \* how its upload of the final model ended
    console, net                     \* output and network calls of the last step

config == <<api_endpoint, api_key, run_id>>
queues == <<metrics_queue, log_queue, progress_queue>>
flags == <<stop_file, pause_file>>
locals == <<batch, msg, latest_step>>
gate == <<num_timesteps, offset, agent, last_logged_pct, ret>>
seqs == <<metSeq, logSeq, progSeq, shutdowns>>
sent == <<sentM, sentL, sentP>>
train == <<run, emitted, uploaded>>
vars == <<config, train, queues, stop_event, flags, pc, locals, cmd, nCmds, gate,
          seqs, sent, anyFail, flushed, console, net>>

\* ------------------------------------------------------------ KitClient
\* self.enabled (kit.py:27-31).
enabled == api_endpoint /\ api_key

\* "if self.enabled and self.run_id" (kit.py:171, 177, 181, 185, 197).
\* The online test without its run id half.
OnlineWithoutRunId == enabled

Online == enabled /\ run_id

\* hasattr(self, '_stop_event'): the queues, the event and the thread are made
\* only in the run-id branch of __init__ (kit.py:35-44).
HasStopEvent == enabled /\ run_id

Call(op, by, data) == [op |-> op, by |-> by, data |-> data]

\* The state after KitClient() and KitLogCallback(offset), in a working
\* directory where an operator may have left signal files; the backend has
\* handed out used of the commands it will ever hand out.  offset is one of
\* offsets, and the learn() call that follows counts on from offset, or from
\* 0 when it resets the counter (reset_num_timesteps).
InitFrom(used, offsets, reset) ==
    /\ api_endpoint \in BOOLEAN
    /\ api_key \in BOOLEAN
    /\ run_id \in BOOLEAN
    /\ metrics_queue = <<>>
    /\ log_queue = <<>>
    /\ progress_queue = <<>>
    /\ stop_event = FALSE
    /\ stop_file \in BOOLEAN
    /\ pause_file \in BOOLEAN
    /\ pc = [t \in Threads |->
               IF t = "main" THEN "idle"
               ELSE IF api_endpoint /\ api_key /\ run_id THEN "loop" ELSE "none"]
    /\ batch = [t \in Threads |-> <<>>]
    /\ msg = [t \in Threads |-> NoMsg]
    /\ latest_step = [t \in Threads |-> NoStep]
    /\ cmd = None
    /\ nCmds = used
    /\ offset \in offsets
    /\ num_timesteps = IF reset THEN 0 ELSE offset
    /\ agent = FALSE
    /\ last_logged_pct = 0 - 1
    /\ ret = None
    /\ metSeq = 0
    /\ logSeq = 0
    /\ progSeq = 0
    /\ shutdowns = 0
    /\ sentM = <<>>
    /\ sentL = <<>>
    /\ sentP = <<>>
    /\ anyFail = FALSE
    /\ flushed = [t \in Threads |-> <<>>]
    /\ run = "none"
    /\ emitted = <<>>
    /\ uploaded = None
    /\ console = <<>>
    /\ net = <<>>

\* orchestrate_sb3_training makes the callback with the step count of the
\* model it continues, or with 0 for a new model (agent.py:89-95).
InitWith(used) == InitFrom(used, {0, MaxOffset}, FALSE)

Init == InitWith(0)

\* ------------------------------------------------------ telemetry methods
\* What calls of log_message with these texts do to the log queue, the counter
\* and the console (kit.py:170-174).  before and after are the lines the caller
\* prints around them, calls the network calls the caller makes in the same step.
LogMessageEffect(texts, before, after, calls) ==
    IF Online
    THEN /\ log_queue' = log_queue \o
              [i \in 1..Len(texts) |-> [id |-> logSeq + i, text |-> texts[i]]]
         /\ logSeq' = logSeq + Len(texts)
         /\ console' = before \o after
         /\ net' = calls
    ELSE /\ UNCHANGED <<log_queue, logSeq>>
         /\ console' = before \o [i \in 1..Len(texts) |-> Line("print", texts[i])]
                               \o after
         /\ net' = calls

\* KitClient.log_message, called by the user (through BaseAgent.log).
LogMessage ==
    /\ pc["main"] = "idle"
    /\ logSeq < MaxLogs
    /\ LogMessageEffect(<<"msg">>, <<>>, <<>>, <<>>)
    /\ UNCHANGED <<config, train, metrics_queue, progress_queue, stop_event, flags, pc,
                   locals, cmd, nCmds, gate, metSeq, progSeq, sent, anyFail, flushed,
                   shutdowns>>

\* KitClient.log_metric.
LogMetricN(inputs, max) ==
    /\ pc["main"] = "idle"
    /\ metSeq < max
    /\ \E m \in inputs :
         IF Online
         THEN /\ metrics_queue' = Append(metrics_queue,
                    [id |-> metSeq + 1, step |-> m[2], name |-> m[1], value |-> m[3]])
              /\ metSeq' = metSeq + 1
         ELSE UNCHANGED <<metrics_queue, metSeq>>
    /\ console' = <<>>
    /\ net' = <<>>
    /\ UNCHANGED <<config, train, log_queue, progress_queue, stop_event, flags, pc,
                   locals, cmd, nCmds, gate, logSeq, progSeq, sent, anyFail, flushed,
                   shutdowns>>

LogMetric == LogMetricN(MetricInputs, MaxMetrics)

\* What log_progress does to the progress queue.
LogProgressEffect(step) ==
    IF Online
    THEN /\ progress_queue' = Append(progress_queue, [id |-> progSeq + 1, step |-> step])
         /\ progSeq' = progSeq + 1
    ELSE UNCHANGED <<progress_queue, progSeq>>

\* KitClient.log_progress, called by the user.
LogProgress ==
    /\ pc["main"] = "idle"
    /\ progSeq < MaxProgress
    /\ \E s \in ProgressInputs : LogProgressEffect(s)
    /\ console' = <<>>
    /\ net' = <<>>
    /\ UNCHANGED <<config, train, metrics_queue, log_queue, stop_event, flags, pc,
                   locals, cmd, nCmds, gate, metSeq, logSeq, sent, anyFail, flushed,
                   shutdowns>>

\* What log_event prints and sends, and whether the call failed.
EventLines(name, status, ok) ==
    IF Online
    THEN <<Line("[SDK] Event:", name)>> \o
         (IF ok THEN <<>> ELSE <<Line("[SDK-ERR]", "Event send failed")>>)
    ELSE <<Line("[EVENT]", name)>>

\* A log_event that tries a second time.
EventCallsRetried(name, status, by) ==
    IF Online THEN <<Call("event", by, <<name, status>>),
                     Call("event", by, <<name, status>>)>>
    ELSE <<>>

EventCalls(name, status, by) ==
    IF Online THEN <<Call("event", by, <<name, status>>)>> ELSE <<>>

\* KitClient.log_event, called by the user (through BaseAgent.emit_event).
LogEvent ==
    /\ pc["main"] = "idle"
    /\ \E e \in EventInputs, ok \in BOOLEAN :
         /\ console' = EventLines(e[1], e[2], ok)
         /\ net' = EventCalls(e[1], e[2], "main")
         /\ anyFail' = (anyFail \/ (Online /\ ~ok))
    /\ UNCHANGED <<config, train, queues, stop_event, flags, pc, locals, cmd, nCmds,
                   gate, seqs, sent, flushed>>

\* ------------------------------------------------------------ the flushes
\* Where a thread goes when its _flush_progress returns: the worker polls
\* (kit.py:60), shutdown prints and returns (kit.py:164).
AfterFlush(t) == IF t = "worker" THEN "poll" ELSE "sd_done"

\* The metrics payload: the samples as log_metric built them (kit.py:178).
Payload(b) == [i \in 1..Len(b) |->
                 [step |-> b[i].step, name |-> b[i].name, value |-> b[i].value]]

Ids(b) == [i \in 1..Len(b) |-> b[i].id]

\* The loop condition of _flush_metrics (kit.py:114).
\* A loop that stops after its first sample.
MetricsLoopCondOne(q, b) == q # <<>> /\ Len(b) < 1

MetricsLoopCond(q, b) == q # <<>> /\ Len(b) < BatchCap

\* _flush_metrics, one turn of its loop, or its end (kit.py:112-119).
FlushMetricsPop(t) ==
    /\ pc[t] = "fm_pop"
    /\ IF MetricsLoopCond(metrics_queue, batch[t])
       THEN /\ batch' = [batch EXCEPT ![t] = Append(@, Head(metrics_queue))]
            /\ metrics_queue' = Tail(metrics_queue)
            /\ UNCHANGED <<pc, flushed>>
       ELSE /\ UNCHANGED <<batch, metrics_queue>>
            /\ IF batch[t] = <<>>
               THEN /\ pc' = [pc EXCEPT ![t] = "fl_pop"]
                    /\ flushed' = [flushed EXCEPT ![t] = Append(@, "M")]
               ELSE /\ pc' = [pc EXCEPT ![t] = "fm_post"]
                    /\ UNCHANGED flushed
    /\ console' = <<>>
    /\ net' = <<>>
    /\ UNCHANGED <<config, train, log_queue, progress_queue, stop_event, flags, msg,
                   latest_step, cmd, nCmds, gate, seqs, sent, anyFail>>

\* A loop that pops up to the cap and then empties the queue.
MetricsLoopDropRest(q, b) ==
    LET room == BatchCap - Len(b)
        n == IF Len(q) < room THEN Len(q) ELSE room
    IN  <<<<>>, b \o SubSeq(q, 1, n)>>

\* The loop of _flush_metrics run to its end: the queue and the batch it leaves.
RECURSIVE MetricsLoop(_, _)
MetricsLoop(q, b) ==
    IF MetricsLoopCond(q, b)
    THEN MetricsLoop(Tail(q), Append(b, Head(q)))
    ELSE <<q, b>>

\* _flush_metrics up to its call, with no step of the other thread between the
\* turns of its loop: the steps of FlushMetricsPop taken in one go.
FlushMetricsRun(t) ==
    /\ pc[t] = "fm_pop"
    /\ LET r == MetricsLoop(metrics_queue, batch[t])
       IN  /\ metrics_queue' = r[1]
           /\ batch' = [batch EXCEPT ![t] = r[2]]
           /\ IF r[2] = <<>>
              THEN /\ pc' = [pc EXCEPT ![t] = "fl_pop"]
                   /\ flushed' = [flushed EXCEPT ![t] = Append(@, "M")]
              ELSE /\ pc' = [pc EXCEPT ![t] = "fm_post"]
                   /\ UNCHANGED flushed
    /\ console' = <<>>
    /\ net' = <<>>
    /\ UNCHANGED <<config, train, log_queue, progress_queue, stop_event, flags, msg,
                   latest_step, cmd, nCmds, gate, seqs, sent, anyFail>>

\* A _flush_metrics that puts its batch back when the call fails.
FlushMetricsPostRequeue(t) ==
    /\ pc[t] = "fm_post"
    /\ \E ok \in BOOLEAN :
         /\ net' = <<Call("metrics", t, Payload(batch[t]))>>
         /\ console' = IF ok THEN <<>> ELSE <<Line("[SDK-ERR]", "Metrics push failed")>>
         /\ anyFail' = (anyFail \/ ~ok)
         /\ metrics_queue' = IF ok THEN metrics_queue ELSE batch[t] \o metrics_queue
    /\ sentM' = sentM \o Ids(batch[t])
    /\ batch' = [batch EXCEPT ![t] = <<>>]
    /\ pc' = [pc EXCEPT ![t] = "fl_pop"]
    /\ flushed' = [flushed EXCEPT ![t] = Append(@, "M")]
    /\ UNCHANGED <<config, train, log_queue, progress_queue, stop_event, flags, msg,
                   latest_step, cmd, nCmds, gate, seqs, sentL, sentP>>

\* _flush_metrics, its one outbound call (kit.py:120-124).
FlushMetricsPost(t) ==
    /\ pc[t] = "fm_post"
    /\ \E ok \in BOOLEAN :
         /\ net' = <<Call("metrics", t, Payload(batch[t]))>>
         /\ console' = IF ok THEN <<>> ELSE <<Line("[SDK-ERR]", "Metrics push failed")>>
         /\ anyFail' = (anyFail \/ ~ok)
    /\ sentM' = sentM \o Ids(batch[t])
    /\ batch' = [batch EXCEPT ![t] = <<>>]
    /\ pc' = [pc EXCEPT ![t] = "fl_pop"]
    /\ flushed' = [flushed EXCEPT ![t] = Append(@, "M")]
    /\ UNCHANGED <<config, train, queues, stop_event, flags, msg, latest_step, cmd,
                   nCmds, gate, seqs, sentL, sentP>>

\* _flush_logs, the loop test and the get_nowait (kit.py:127-129).
FlushLogsPop(t) ==
    /\ pc[t] = "fl_pop"
    /\ IF log_queue # <<>>
       THEN /\ msg' = [msg EXCEPT ![t] = Head(log_queue)]
            /\ log_queue' = Tail(log_queue)
            /\ pc' = [pc EXCEPT ![t] = "fl_post"]
            /\ UNCHANGED flushed
       ELSE /\ UNCHANGED <<msg, log_queue>>
            /\ pc' = [pc EXCEPT ![t] = "fp_pop"]
            /\ flushed' = [flushed EXCEPT ![t] = Append(@, "L")]
    /\ console' = <<>>
    /\ net' = <<>>
    /\ UNCHANGED <<config, train, metrics_queue, progress_queue, stop_event, flags, batch,
                   latest_step, cmd, nCmds, gate, seqs, sent, anyFail>>

\* _flush_logs, the outbound call for the popped message (kit.py:130-135).
FlushLogsPost(t) ==
    /\ pc[t] = "fl_post"
    /\ \E ok \in BOOLEAN :
         /\ net' = <<Call("log", t, msg[t].text)>>
         /\ console' = IF ok THEN <<>> ELSE <<Line("[SDK-ERR]", "Log push failed")>>
         /\ anyFail' = (anyFail \/ ~ok)
    /\ sentL' = Append(sentL, msg[t].id)
    /\ msg' = [msg EXCEPT ![t] = NoMsg]
    /\ pc' = [pc EXCEPT ![t] = "fl_pop"]
    /\ UNCHANGED <<config, train, queues, stop_event, flags, batch, latest_step, cmd,
                   nCmds, gate, seqs, sentM, sentP, flushed>>

\* What _flush_progress keeps of a popped update (kit.py:141).
\* A _flush_progress that keeps the first update it pops.
KeepFirst(old, new) == IF old = NoStep THEN new ELSE old

KeepLatest(old, new) == new

\* _flush_progress, one turn of its loop, or its end (kit.py:138-144).
FlushProgressPop(t) ==
    /\ pc[t] = "fp_pop"
    /\ IF progress_queue # <<>>
       THEN /\ latest_step' = [latest_step EXCEPT
                                 ![t] = KeepLatest(@, Head(progress_queue))]
            /\ progress_queue' = Tail(progress_queue)
            /\ UNCHANGED <<pc, flushed>>
       ELSE /\ UNCHANGED <<latest_step, progress_queue>>
            /\ IF latest_step[t] = NoStep
               THEN /\ pc' = [pc EXCEPT ![t] = AfterFlush(t)]
                    /\ flushed' = [flushed EXCEPT ![t] = Append(@, "P")]
               ELSE /\ pc' = [pc EXCEPT ![t] = "fp_post"]
                    /\ UNCHANGED flushed
    /\ console' = <<>>
    /\ net' = <<>>
    /\ UNCHANGED <<config, train, metrics_queue, log_queue, stop_event, flags, batch, msg,
                   cmd, nCmds, gate, seqs, sent, anyFail>>

\* _flush_progress, its one outbound call (kit.py:145-149).
FlushProgressPost(t) ==
    /\ pc[t] = "fp_post"
    /\ \E ok \in BOOLEAN :
         /\ net' = <<Call("progress", t, latest_step[t].step)>>
         /\ console' = IF ok THEN <<>> ELSE <<Line("[SDK-ERR]", "Progress push failed")>>
         /\ anyFail' = (anyFail \/ ~ok)
    /\ sentP' = Append(sentP, latest_step[t].id)
    /\ latest_step' = [latest_step EXCEPT ![t] = NoStep]
    /\ pc' = [pc EXCEPT ![t] = AfterFlush(t)]
    /\ flushed' = [flushed EXCEPT ![t] = Append(@, "P")]
    /\ UNCHANGED <<config, train, queues, stop_event, flags, batch, msg, cmd, nCmds,
                   gate, seqs, sentM, sentL>>

\* ------------------------------------------------------------ the worker
\* A worker whose loop does not test the stop event.
WorkerLoopIgnoresStop ==
    /\ pc["worker"] = "loop"
    /\ pc' = [pc EXCEPT !["worker"] = "fm_pop"]
    /\ flushed' = [flushed EXCEPT !["worker"] = <<>>]
    /\ console' = <<>>
    /\ net' = <<>>
    /\ UNCHANGED <<config, train, queues, stop_event, flags, locals, cmd, nCmds, gate,
                   seqs, sent, anyFail>>

\* "while not self._stop_event.is_set()" (kit.py:54).
WorkerLoop ==
    /\ pc["worker"] = "loop"
    /\ IF stop_event
       THEN /\ pc' = [pc EXCEPT !["worker"] = "exited"]
            /\ UNCHANGED flushed
       ELSE /\ pc' = [pc EXCEPT !["worker"] = "fm_pop"]
            /\ flushed' = [flushed EXCEPT !["worker"] = <<>>]
    /\ console' = <<>>
    /\ net' = <<>>
    /\ UNCHANGED <<config, train, queues, stop_event, flags, locals, cmd, nCmds, gate,
                   seqs, sent, anyFail>>

\* What the backend answers to a poll: a command, a status other than 200, or
\* no answer (the request raises).
PollAnswers == Commands \cup {"http_error", "exception"}

\* cmd = self._poll_command() (kit.py:60, 91-109).  The worker runs only with
\* enabled and a run id, so the guard of kit.py:92 never returns early here.
WorkerPoll ==
    /\ pc["worker"] = "poll"
    /\ \E a \in PollAnswers :
         /\ a \in {"stop", "pause", "resume"} => nCmds < MaxCmds
         /\ nCmds' = IF a \in {"stop", "pause", "resume"} THEN nCmds + 1 ELSE nCmds
         /\ net' = <<Call("command", "worker", None)>>
         /\ IF a = "exception"
            THEN /\ cmd' = None
                 /\ console' = <<Line("[SDK-ERR]", "Telemetry worker error")>>
                 /\ pc' = [pc EXCEPT !["worker"] = "backoff"]
                 /\ anyFail' = TRUE
            ELSE IF a = "http_error"
            THEN /\ cmd' = None
                 /\ console' = <<Line("[SDK-ERR]", "Poll command failed")>>
                 /\ pc' = [pc EXCEPT !["worker"] = "apply"]
                 /\ anyFail' = TRUE
            ELSE /\ cmd' = a
                 /\ console' = <<>>
                 /\ pc' = [pc EXCEPT !["worker"] = "apply"]
                 /\ UNCHANGED anyFail
    /\ UNCHANGED <<config, train, queues, stop_event, flags, locals, gate, seqs, sent,
                   flushed>>

\* Which signal file a command changes, if any (kit.py:61-75): the command
\* changes a file only when that changes its presence.
\* A stop command applied without the exists() test.
CreatesStopOnEveryPoll(c) == c = "stop"

CreatesStop(c) == c = "stop" /\ ~stop_file
CreatesPause(c) == c = "pause" /\ ~pause_file
\* A worker that leaves the pause file alone on "resume".
RemovesPauseNever(c) == FALSE

RemovesPause(c) == c = "resume" /\ pause_file
Transition(c) == CreatesStop(c) \/ CreatesPause(c) \/ RemovesPause(c)

\* The text the worker logs for a transition (kit.py:65, 70, 75).
CommandText(c) ==
    IF c = "stop" THEN "Received remote STOP command."
    ELSE IF c = "pause" THEN "Received remote PAUSE command."
    ELSE "Received remote RESUME command."

\* The if/elif chain on cmd, then the sleep begins (kit.py:61-77).  touch and
\* unlink may raise (fileOk false): the except clause logs and backs off.
WorkerApply ==
    /\ pc["worker"] = "apply"
    /\ cmd' = None
    /\ IF Transition(cmd)
       THEN \E fileOk \in BOOLEAN :
              IF fileOk
              THEN /\ stop_file' = (stop_file \/ CreatesStop(cmd))
                   /\ pause_file' = ((pause_file \/ CreatesPause(cmd))
                                        /\ ~RemovesPause(cmd))
                   /\ LogMessageEffect(<<CommandText(cmd)>>,
                                       <<Line("[SDK] Command Received:", cmd)>>,
                                       <<>>, <<>>)
                   /\ pc' = [pc EXCEPT !["worker"] = "sleep"]
              ELSE /\ UNCHANGED <<flags, log_queue, logSeq>>
                   /\ console' = <<Line("[SDK-ERR]", "Telemetry worker error")>>
                   /\ net' = <<>>
                   /\ pc' = [pc EXCEPT !["worker"] = "backoff"]
       ELSE /\ UNCHANGED <<flags, log_queue, logSeq>>
            /\ console' = <<>>
            /\ net' = <<>>
            /\ pc' = [pc EXCEPT !["worker"] = "sleep"]
    /\ UNCHANGED <<config, train, metrics_queue, progress_queue, stop_event, locals,
                   nCmds, gate, metSeq, progSeq, sent, anyFail, flushed,
                   shutdowns>>

\* time.sleep(polling_interval) ends (kit.py:77).
WorkerSleep ==
    /\ pc["worker"] = "sleep"
    /\ pc' = [pc EXCEPT !["worker"] = "loop"]
    /\ console' = <<>>
    /\ net' = <<>>
    /\ UNCHANGED <<config, train, queues, stop_event, flags, locals, cmd, nCmds, gate,
                   seqs, sent, anyFail, flushed>>

\* A worker whose thread ends with the error instead of backing off.
WorkerBackoffDies ==
    /\ pc["worker"] = "backoff"
    /\ pc' = [pc EXCEPT !["worker"] = "exited"]
    /\ console' = <<>>
    /\ net' = <<>>
    /\ UNCHANGED <<config, train, queues, stop_event, flags, locals, cmd, nCmds, gate,
                   seqs, sent, anyFail, flushed>>

\* time.sleep(5.0) ends (kit.py:87).
WorkerBackoff ==
    /\ pc["worker"] = "backoff"
    /\ pc' = [pc EXCEPT !["worker"] = "loop"]
    /\ console' = <<>>
    /\ net' = <<>>
    /\ UNCHANGED <<config, train, queues, stop_event, flags, locals, cmd, nCmds, gate,
                   seqs, sent, anyFail, flushed>>

\* ------------------------------------------------------------- shutdown
\* The guard of shutdown (kit.py:153).
\* The guard of shutdown without its is_set() half.
ShutdownGuardNoLatch == HasStopEvent

ShutdownGuard == HasStopEvent /\ ~stop_event

\* shutdown() up to the join (kit.py:153-157), whoever calls it.
ShutdownCallEffect ==
    /\ pc["main"] = "idle"
    /\ shutdowns < MaxShutdowns
    /\ shutdowns' = shutdowns + 1
    /\ IF ShutdownGuard
       THEN /\ stop_event' = TRUE
            /\ console' = <<Line("[SDK]", "Shutting down telemetry client...")>>
            /\ pc' = [pc EXCEPT !["main"] =
                         IF pc["worker"] # "exited" THEN "sd_join" ELSE "fm_pop"]
            /\ flushed' = [flushed EXCEPT !["main"] = <<>>]
       ELSE /\ UNCHANGED <<stop_event, pc, flushed>>
            /\ console' = <<>>
    /\ net' = <<>>
    /\ UNCHANGED <<config, queues, flags, locals, cmd, nCmds, gate, metSeq, logSeq,
                   progSeq, sent, anyFail>>

\* shutdown() called by the user.
ShutdownCall == ShutdownCallEffect /\ UNCHANGED train

\* Where shutdown goes when the join is over, either way (kit.py:159-161).
AfterJoin == "fm_pop"

\* join(timeout=3.0) returns because the worker has exited (kit.py:157).
JoinReturns ==
    /\ pc["main"] = "sd_join"
    /\ pc["worker"] = "exited"
    /\ pc' = [pc EXCEPT !["main"] = AfterJoin]
    /\ console' = <<>>
    /\ net' = <<>>
    /\ UNCHANGED <<config, train, queues, stop_event, flags, locals, cmd, nCmds, gate,
                   seqs, sent, anyFail, flushed>>

\* A shutdown that gives up its drain when the join times out.
JoinTimeoutSkipsDrain ==
    /\ pc["main"] = "sd_join"
    /\ pc["worker"] # "exited"
    /\ pc' = [pc EXCEPT !["main"] = "sd_done"]
    /\ console' = <<>>
    /\ net' = <<>>
    /\ UNCHANGED <<config, train, queues, stop_event, flags, locals, cmd, nCmds, gate,
                   seqs, sent, anyFail, flushed>>

\* join(timeout=3.0) returns because the three seconds are over while the
\* worker is still in its cycle: in a call, in a sleep, or between two lines.
JoinTimeout ==
    /\ pc["main"] = "sd_join"
    /\ pc["worker"] # "exited"
    /\ pc' = [pc EXCEPT !["main"] = AfterJoin]
    /\ console' = <<>>
    /\ net' = <<>>
    /\ UNCHANGED <<config, train, queues, stop_event, flags, locals, cmd, nCmds, gate,
                   seqs, sent, anyFail, flushed>>

\* The final flush is over: shutdown prints and returns (kit.py:164).
ShutdownReturn ==
    /\ pc["main"] = "sd_done"
    /\ pc' = [pc EXCEPT !["main"] = "idle"]
    /\ console' = <<Line("[SDK]", "Telemetry flushed.")>>
    /\ net' = <<>>
    /\ UNCHANGED <<config, train, queues, stop_event, flags, locals, cmd, nCmds, gate,
                   seqs, sent, anyFail, flushed>>

\* ------------------------------------------------------------ the step gate
\* self.locals['total_timesteps']: the goal of the learn() call that started
\* at num_timesteps = offset.
total_timesteps == offset + MaxSteps

\* A relative step without the max(0, ...).
RelativeStepUnclamped(n) == n - offset

\* relative_step (callbacks.py:72).
RelativeStep(n) == IF n - offset > 0 THEN n - offset ELSE 0

\* pct (callbacks.py:80).
Pct(n) == (n * 100) \div total_timesteps

\* The boundary test of the graceful stop (callbacks.py:100-101).
\* A graceful stop without the boundary test.
AlignedAlways(n) == TRUE

Aligned(n) == n % NSteps = 0

\* _on_step up to the pause test (callbacks.py:64-83), one training step after
\* the last.  _init_agent finds the agent: the environment of the pipeline
\* carries kit_client, and BaseAgent made itself its agent (agent.py:43).
\* report_progress enqueues the update and then writes progress.log, which may
\* raise (fileOk false): nothing in _on_step catches it (agent.py:57-63).
GateBegin ==
    /\ pc["main"] = "idle"
    /\ num_timesteps < total_timesteps
    /\ num_timesteps' = num_timesteps + 1
    /\ agent' = TRUE
    /\ LogProgressEffect(RelativeStep(num_timesteps + 1))
    /\ net' = <<>>
    /\ \E fileOk \in BOOLEAN :
         IF fileOk
         THEN /\ pc' = [pc EXCEPT !["main"] = "g_pause"]
              /\ ret' = None
              /\ IF Pct(num_timesteps + 1) > last_logged_pct
                 THEN /\ console' = <<Line("[SDK] Training Progress:", "pct")>>
                      /\ last_logged_pct' = Pct(num_timesteps + 1)
                 ELSE /\ console' = <<>>
                      /\ UNCHANGED last_logged_pct
         ELSE /\ ret' = "raised"
              /\ console' = <<>>
              /\ UNCHANGED <<pc, last_logged_pct>>
    /\ UNCHANGED <<config, train, metrics_queue, log_queue, stop_event, flags, locals,
                   cmd, nCmds, offset, metSeq, logSeq, sent, anyFail, flushed,
                   shutdowns>>

\* A pause test that a stop file overrides.
PauseSignalUnlessStop == pause_file /\ ~stop_file

\* self._pause_signal_file.exists() (callbacks.py:86, 91).
PauseSignal == pause_file

\* agent.log(text) followed by agent.emit_event(name, status), in one step.
LogAndEmit(text, name, status) ==
    \E ok \in BOOLEAN :
      /\ LogMessageEffect(<<text>>, <<>>, EventLines(name, status, ok),
                          EventCalls(name, status, "main"))
      /\ anyFail' = (anyFail \/ (Online /\ ~ok))

\* "if self._pause_signal_file.exists()" and what it guards (callbacks.py:86-89).
GatePause ==
    /\ pc["main"] = "g_pause"
    /\ IF PauseSignal
       THEN /\ LogAndEmit("Pause requested. Holding execution...",
                          "TRAINING_PAUSED", "warning")
            /\ pc' = [pc EXCEPT !["main"] = "g_wait"]
       ELSE /\ UNCHANGED <<log_queue, logSeq, anyFail>>
            /\ console' = <<>>
            /\ net' = <<>>
            /\ pc' = [pc EXCEPT !["main"] = "g_stop"]
    /\ UNCHANGED <<config, train, metrics_queue, progress_queue, stop_event, flags,
                   locals, cmd, nCmds, gate, metSeq, progSeq, sent, flushed,
                   shutdowns>>

\* One test of "while self._pause_signal_file.exists()": a second of sleep, or
\* the resume (callbacks.py:91-96).
GateWait ==
    /\ pc["main"] = "g_wait"
    /\ IF PauseSignal
       THEN /\ UNCHANGED <<log_queue, logSeq, anyFail, pc>>
            /\ console' = <<>>
            /\ net' = <<>>
       ELSE /\ LogAndEmit("Resume requested. Continuing training...",
                          "TRAINING_RESUMED", "info")
            /\ pc' = [pc EXCEPT !["main"] = "g_stop"]
    /\ UNCHANGED <<config, train, metrics_queue, progress_queue, stop_event, flags,
                   locals, cmd, nCmds, gate, metSeq, progSeq, sent, flushed,
                   shutdowns>>

\* A graceful stop that takes the stop file away when it acts on it.
GateStopConsumes ==
    /\ pc["main"] = "g_stop"
    /\ IF stop_file /\ Aligned(num_timesteps)
       THEN /\ LogAndEmit("Graceful stop requested. Stopping training.",
                          "TRAINING_STOPPED_GRACEFULLY", "warning")
            /\ ret' = "False"
            /\ stop_file' = FALSE
       ELSE /\ UNCHANGED <<log_queue, logSeq, anyFail>>
            /\ console' = <<>>
            /\ net' = <<>>
            /\ ret' = "True"
            /\ UNCHANGED stop_file
    /\ pc' = [pc EXCEPT !["main"] = "idle"]
    /\ UNCHANGED <<config, train, metrics_queue, progress_queue, stop_event, pause_file,
                   locals, cmd, nCmds, num_timesteps, offset, agent,
                   last_logged_pct, metSeq, progSeq, sent, flushed, shutdowns>>

\* The graceful stop and the return (callbacks.py:99-107).
GateStop ==
    /\ pc["main"] = "g_stop"
    /\ IF stop_file /\ Aligned(num_timesteps)
       THEN /\ LogAndEmit("Graceful stop requested. Stopping training.",
                          "TRAINING_STOPPED_GRACEFULLY", "warning")
            /\ ret' = "False"
       ELSE /\ UNCHANGED <<log_queue, logSeq, anyFail>>
            /\ console' = <<>>
            /\ net' = <<>>
            /\ ret' = "True"
    /\ pc' = [pc EXCEPT !["main"] = "idle"]
    /\ UNCHANGED <<config, train, metrics_queue, progress_queue, stop_event, flags,
                   locals, cmd, nCmds, num_timesteps, offset, agent,
                   last_logged_pct, metSeq, progSeq, sent, flushed, shutdowns>>

\* ----------------------------------------------- data and configuration
\* KitClient.update_total_steps (kit.py:196-202).
UpdateTotalSteps ==
    /\ pc["main"] = "idle"
    /\ \E ok \in BOOLEAN :
         IF Online
         THEN /\ net' = <<Call("total_steps", "main", total_timesteps)>>
              /\ console' = IF ok THEN <<>>
                             ELSE <<Line("[SDK-ERR]", "Total steps update failed")>>
              /\ anyFail' = (anyFail \/ ~ok)
         ELSE /\ net' = <<>>
              /\ console' = <<>>
              /\ UNCHANGED anyFail
    /\ ret' = None
    /\ UNCHANGED <<config, train, queues, stop_event, flags, pc, locals, cmd, nCmds,
                   num_timesteps, offset, agent, last_logged_pct, seqs, sent, flushed>>

\* KitClient.get_run_config (kit.py:206-218).
GetRunConfig ==
    /\ pc["main"] = "idle"
    /\ \E ok \in BOOLEAN :
         IF ~enabled \/ ~run_id
         THEN /\ net' = <<>>
              /\ console' = <<>>
              /\ ret' = None
              /\ UNCHANGED anyFail
         ELSE /\ net' = <<Call("config", "main", None)>>
              /\ console' = <<Line("[SDK]", "Fetching configuration from API..."),
                              IF ok THEN Line("[SDK]", "Configuration received.")
                              ELSE Line("[SDK-ERR]", "Config fetch failed")>>
              /\ ret' = IF ok THEN "config" ELSE None
              /\ anyFail' = (anyFail \/ ~ok)
    /\ UNCHANGED <<config, train, queues, stop_event, flags, pc, locals, cmd, nCmds,
                   num_timesteps, offset, agent, last_logged_pct, seqs, sent, flushed>>

\* KitClient.upload_artifact (kit.py:220-247): the file may fail to open
\* (no call is made), the call may fail or answer an error status; each of
\* these is raised to the caller.
\* "other_status" is an answer that is not 200 and not an error status either
\* (a 204, say): it is printed as an error, raise_for_status() lets it pass
\* and the upload is reported as a success (kit.py:239-243).
UploadHows == {"ok", "other_status", "no_file", "call_failed"}

\* What upload_artifact prints and sends when the upload goes this way.
UploadLines(how) ==
    IF ~enabled \/ ~run_id
    THEN <<Line("[SDK]", "Upload skipped: SDK disabled.")>>
    ELSE <<Line("[SDK]", "Uploading artifact")>> \o
         (IF how = "other_status" THEN <<Line("[SDK-ERR]", "Backend returned")>>
          ELSE <<>>) \o
         <<IF how \in {"ok", "other_status"} THEN Line("[SDK]", "Upload success")
           ELSE Line("[SDK-ERR]", "Upload failed")>>

UploadCalls(how) ==
    IF ~enabled \/ ~run_id \/ how = "no_file" THEN <<>>
    ELSE <<Call("upload", "main", None)>>

\* How upload_artifact ends: skipped by its first test (kit.py:221-223),
\* returned after "Upload success", or raised (kit.py:244-247).
UploadResult(how) ==
    IF ~enabled \/ ~run_id THEN "skipped"
    ELSE IF how \in {"ok", "other_status"} THEN "ok" ELSE "raised"

UploadArtifact ==
    /\ pc["main"] = "idle"
    /\ \E how \in UploadHows :
         /\ net' = UploadCalls(how)
         /\ console' = UploadLines(how)
         /\ ret' = IF UploadResult(how) = "raised" THEN "raised" ELSE None
         /\ anyFail' = (anyFail \/ (Online /\ how = "call_failed"))
    /\ UNCHANGED <<config, train, queues, stop_event, flags, pc, locals, cmd, nCmds,
                   num_timesteps, offset, agent, last_logged_pct, seqs, sent, flushed>>

\* The body of download_artifact past its guard (kit.py:251-265), as what it
\* logs, prints and calls.  KitClient.agent is the BaseAgent (agent.py:43).
DownloadTexts(ok) == IF ok THEN <<>> ELSE <<"Failed to download artifact">>

DownloadLines(ok, evOk) ==
    EventLines("ARTIFACT_DOWNLOAD_STARTED", "info", evOk) \o
    (IF ok THEN EventLines("ARTIFACT_DOWNLOAD_COMPLETED", "success", evOk)
     ELSE <<Line("[SDK-ERR]", "Failed to download artifact")>>)

DownloadCalls(ok) ==
    EventCalls("ARTIFACT_DOWNLOAD_STARTED", "info", "main") \o
    <<Call("download", "main", None)>> \o
    (IF ok THEN EventCalls("ARTIFACT_DOWNLOAD_COMPLETED", "success", "main")
     ELSE <<>>)

\* KitClient.download_artifact (kit.py:249-265): guarded by enabled alone.
DownloadArtifact ==
    /\ pc["main"] = "idle"
    /\ Online => logSeq < MaxLogs
    /\ \E ok \in BOOLEAN, evOk \in BOOLEAN :
         IF ~enabled
         THEN /\ net' = <<>>
              /\ console' = <<>>
              /\ ret' = "False"
              /\ UNCHANGED <<log_queue, logSeq, anyFail>>
         ELSE /\ LogMessageEffect(DownloadTexts(ok), <<>>, DownloadLines(ok, evOk),
                                  DownloadCalls(ok))
              /\ ret' = IF ok THEN "True" ELSE "False"
              /\ anyFail' = (anyFail \/ ~ok \/ (Online /\ ~evOk))
    /\ UNCHANGED <<config, train, metrics_queue, progress_queue, stop_event, flags, pc,
                   locals, cmd, nCmds, num_timesteps, offset, agent,
                   last_logged_pct, metSeq, progSeq, sent, flushed, shutdowns>>

\* KitClient.download_artifacts_for_run (kit.py:267-283): no guard at all.
\* Without credentials self.headers was never set (kit.py:33), so building the
\* request raises before any call is made and the except clause logs.  The
\* list holds no artifact or one.
DownloadArtifactsForRun ==
    /\ pc["main"] = "idle"
    /\ Online => logSeq < MaxLogs
    /\ \E listed \in {"failed", "empty", "one"}, ok \in BOOLEAN, evOk \in BOOLEAN :
         IF ~enabled
         THEN /\ LogMessageEffect(<<"Failed to list artifacts">>,
                                  <<Line("[SDK]", "Fetching artifacts list")>>,
                                  <<>>, <<>>)
              /\ ret' = "False"
              /\ UNCHANGED anyFail
         ELSE IF listed = "failed"
         THEN /\ LogMessageEffect(<<"Failed to list artifacts">>,
                                  <<Line("[SDK]", "Fetching artifacts list")>>,
                                  <<>>, <<Call("artifact_list", "main", None)>>)
              /\ ret' = "False"
              /\ anyFail' = TRUE
         ELSE IF listed = "empty"
         THEN /\ LogMessageEffect(<<>>, <<Line("[SDK]", "Fetching artifacts list")>>,
                                  <<>>, <<Call("artifact_list", "main", None)>>)
              /\ ret' = "False"
              /\ UNCHANGED anyFail
         ELSE /\ LogMessageEffect(DownloadTexts(ok),
                                  <<Line("[SDK]", "Fetching artifacts list")>>,
                                  DownloadLines(ok, evOk),
                                  <<Call("artifact_list", "main", None)>>
                                      \o DownloadCalls(ok))
              /\ ret' = "True"
              /\ anyFail' = (anyFail \/ ~ok \/ (Online /\ ~evOk))
    /\ UNCHANGED <<config, train, metrics_queue, progress_queue, stop_event, flags, pc,
                   locals, cmd, nCmds, num_timesteps, offset, agent,
                   last_logged_pct, metSeq, progSeq, sent, flushed, shutdowns>>

\* KitClient.get_training_data (kit.py:285-312).  local says what
\* KIT_LOCAL_DATA_PATH gives: no file, a file that loads, a file that does not.
GetTrainingData ==
    /\ pc["main"] = "idle"
    /\ Online => logSeq + 1 < MaxLogs
    /\ \E local \in {"absent", "loaded", "broken"}, ok \in BOOLEAN, evOk \in BOOLEAN :
         LET found == IF local = "absent" THEN <<>>
                      ELSE <<"Using locally injected data">>
             broken == IF local = "broken"
                       THEN <<Line("print", "Failed local load")>> ELSE <<>>
         IN  IF local = "loaded"
             THEN /\ LogMessageEffect(found, <<>>, <<>>, <<>>)
                  /\ ret' = "data"
                  /\ UNCHANGED anyFail
             ELSE IF ~enabled
             THEN /\ LogMessageEffect(found, <<>>, broken, <<>>)
                  /\ ret' = None
                  /\ UNCHANGED anyFail
             ELSE IF ok
             THEN /\ LogMessageEffect(found, <<>>,
                        broken \o EventLines("TRAINING_DATA_REQUESTED", "info", evOk)
                               \o EventLines("TRAINING_DATA_RECEIVED", "success", evOk),
                        EventCalls("TRAINING_DATA_REQUESTED", "info", "main")
                          \o <<Call("training_data", "main", None)>>
                          \o EventCalls("TRAINING_DATA_RECEIVED", "success", "main"))
                  /\ ret' = "data"
                  /\ anyFail' = (anyFail \/ (Online /\ ~evOk))
             ELSE /\ LogMessageEffect(found \o <<"Failed to get training data">>, <<>>,
                        broken \o EventLines("TRAINING_DATA_REQUESTED", "info", evOk)
                               \o EventLines("TRAINING_DATA_FAILED", "failure", evOk),
                        EventCalls("TRAINING_DATA_REQUESTED", "info", "main")
                          \o <<Call("training_data", "main", None)>>
                          \o EventCalls("TRAINING_DATA_FAILED", "failure", "main"))
                  /\ ret' = None
                  /\ anyFail' = TRUE
    /\ UNCHANGED <<config, train, metrics_queue, progress_queue, stop_event, flags, pc,
                   locals, cmd, nCmds, num_timesteps, offset, agent,
                   last_logged_pct, metSeq, progSeq, sent, flushed, shutdowns>>

\* --------------------------------------------------------- specifications
\* The program is checked one use of it at a time: each specification gives
\* the caller thread some of the public operations, and runs with them every
\* step of the program they can set off.

\* The training pipeline: the step gate on the caller thread, the telemetry
\* worker flushing what the gate enqueues and applying the polled commands.
Next ==
    \/ GateBegin
    \/ GatePause
    \/ GateWait
    \/ GateStop
    \/ WorkerLoop
    \/ FlushMetricsPop("worker")
    \/ FlushLogsPop("worker")
    \/ FlushLogsPost("worker")
    \/ FlushProgressPop("worker")
    \/ FlushProgressPost("worker")
    \/ WorkerPoll
    \/ WorkerApply
    \/ WorkerSleep
    \/ WorkerBackoff

Spec == Init /\ [][Next]_vars

\* A client with a run id in a working directory without signal files.
InitOnline == Init /\ Online /\ ~stop_file /\ ~pause_file /\ offset = 0

\* What shutdown and the worker do together, whatever was enqueued.
Drain ==
    \/ \E t \in Threads : FlushMetricsPop(t)
    \/ \E t \in Threads : FlushLogsPop(t)
    \/ \E t \in Threads : FlushLogsPost(t)
    \/ \E t \in Threads : FlushProgressPop(t)
    \/ WorkerLoop
    \/ WorkerPoll
    \/ WorkerApply
    \/ WorkerSleep
    \/ WorkerBackoff
    \/ ShutdownCall
    \/ JoinReturns
    \/ JoinTimeout
    \/ ShutdownReturn

\* Log messages and events, then shutdown, any number of times.
NextLogs == LogMessage \/ LogEvent \/ Drain

SpecLogs == InitOnline /\ [][NextLogs]_vars

\* Progress updates, then shutdown.
NextProgress ==
    \/ LogProgress
    \/ \E t \in Threads : FlushProgressPost(t)
    \/ Drain

SpecProgress == InitOnline /\ [][NextProgress]_vars

\* Metrics past the batch cap, for a backend that has no command for the run.
\* The caller records its samples in bursts (as SB3MetricsCallback does at the
\* end of a rollout, callbacks.py:117-131) and the loop of _flush_metrics is
\* taken in one go: no step of the other thread falls inside either.
CapInput == <<"loss", 10, 5>>

\* n calls of log_metric in a row (kit.py:176-178).
LogMetricBurst(n) ==
    /\ pc["main"] = "idle"
    /\ metSeq + n <= MaxCapMetrics
    /\ Online
    /\ metrics_queue' = metrics_queue \o
          [i \in 1..n |-> [id |-> metSeq + i, step |-> CapInput[2],
                            name |-> CapInput[1], value |-> CapInput[3]]]
    /\ metSeq' = metSeq + n
    /\ console' = <<>>
    /\ net' = <<>>
    /\ UNCHANGED <<config, train, log_queue, progress_queue, stop_event, flags, pc,
                   locals, cmd, nCmds, gate, logSeq, progSeq, sent, anyFail, flushed,
                   shutdowns>>

\* The totals a burst may bring the number of recorded samples to.
CapMarks == {1, BatchCap, MaxCapMetrics}

LogMetricCap == \E m \in CapMarks : m > metSeq /\ LogMetricBurst(m - metSeq)

InitCap == InitWith(MaxCmds) /\ Online /\ ~stop_file /\ ~pause_file /\ offset = 0

NextCap ==
    \/ LogMetricCap
    \/ \E t \in Threads : FlushMetricsRun(t)
    \/ \E t \in Threads : FlushMetricsPost(t)
    \/ \E t \in Threads : FlushLogsPop(t)
    \/ \E t \in Threads : FlushProgressPop(t)
    \/ WorkerLoop
    \/ WorkerPoll
    \/ WorkerApply
    \/ WorkerSleep
    \/ WorkerBackoff
    \/ ShutdownCall
    \/ JoinReturns
    \/ JoinTimeout
    \/ ShutdownReturn

SpecCap == InitCap /\ [][NextCap]_vars

\* A client without run id, credential or endpoint: every public operation.
InitOffline == Init /\ ~(api_endpoint /\ api_key /\ run_id)

NextOffline ==
    \/ LogMessage
    \/ LogMetric
    \/ LogProgress
    \/ LogEvent
    \/ UpdateTotalSteps
    \/ GetRunConfig
    \/ UploadArtifact
    \/ DownloadArtifact
    \/ DownloadArtifactsForRun
    \/ GetTrainingData
    \/ ShutdownCall
    \/ GateBegin
    \/ GatePause
    \/ GateWait
    \/ GateStop

SpecOffline == InitOffline /\ [][NextOffline]_vars

\* ---------------------------------------------------------- properties
\* The sequence 1, 2, .., n: the ids of n enqueued items in enqueue order.
Seq1(n) == [i \in 1..n |-> i]

\* The last step was the return of shutdown() after its final drain.
ShutdownJustReturned == console = <<Line("[SDK]", "Telemetry flushed.")>>

\* The last step sent the event called name, or printed it in local mode.
Emitted(name) ==
    \/ \E i \in DOMAIN net : net[i].op = "event" /\ net[i].data[1] = name
    \/ \E i \in DOMAIN console : console[i] = Line("[EVENT]", name)

\* The program's own state: everything but the record of the last step's
\* output and the count of shutdown calls.
program == <<config, queues, stop_event, flags, pc, locals, cmd, nCmds, gate,
             metSeq, logSeq, progSeq, sent, anyFail, flushed>>

\* C1 - No-failure completeness: when shutdown() has returned and no outbound
\* call has failed, every metric and every log message enqueued so far has been
\* sent exactly once, in enqueue order, and the latest progress update has been
\* sent with nothing left in the progress queue.
C1_NoFailureCompleteness ==
    (ShutdownJustReturned /\ ~anyFail) =>
        /\ sentM = Seq1(metSeq)
        /\ sentL = Seq1(logSeq)
        /\ progress_queue = <<>>
        /\ progSeq > 0 => (sentP # <<>> /\ sentP[Len(sentP)] = progSeq)
        /\ \A i, j \in DOMAIN sentP : i < j => sentP[i] < sentP[j]

\* C2 - Stop takes precedence over Pause: a step gate that finds both signal
\* files at its pause test on a checkpoint-aligned step does not go into the
\* pause wait.
C2_StopPrecedesPause ==
    [][(pc["main"] = "g_pause" /\ stop_file /\ pause_file
          /\ num_timesteps % NSteps = 0)
       => pc'["main"] # "g_wait"]_vars

C5_EdgeTriggered ==
    [][/\ (pc["worker"] = "apply" /\ pc'["worker"] # "apply") =>
            /\ stop_file' # stop_file => (cmd = "stop" /\ ~stop_file /\ stop_file')
            /\ pause_file' # pause_file =>
                 \/ (cmd = "pause" /\ ~pause_file /\ pause_file')
                 \/ (cmd = "resume" /\ pause_file /\ ~pause_file')
            /\ (stop_file' # stop_file) => (pause_file' = pause_file)
            /\ IF flags' # flags
               THEN /\ log_queue' = Append(log_queue,
                           [id |-> logSeq + 1, text |-> CommandText(cmd)])
                    /\ logSeq' = logSeq + 1
                    /\ console' = <<Line("[SDK] Command Received:", cmd)>>
               ELSE /\ log_queue' = log_queue
                    /\ logSeq' = logSeq
                    /\ \A i \in DOMAIN console' :
                         console'[i][1] # "[SDK] Command Received:"
            /\ pc'["worker"] = "sleep" =>
                 /\ cmd = "stop" => stop_file'
                 /\ cmd = "pause" => pause_file'
                 /\ cmd = "resume" => ~pause_file'
       /\ flags' # flags => pc["worker"] = "apply"
      ]_vars

\* A second command has been polled, it is "stop", and the stop file is
\* already there: the repeat the worker must not act on.
C5_Witness ==
    /\ pc["worker"] = "apply"
    /\ cmd = "stop"
    /\ stop_file
    /\ nCmds >= 2

\* The other of the two threads.
Other(t) == IF t = "main" THEN "worker" ELSE "main"

\* The ids of the progress updates still in the queue.
QueuedProgress == {progress_queue[i].id : i \in DOMAIN progress_queue}

\* The ids of the progress updates that have been sent.
SentProgress == {sentP[i] : i \in DOMAIN sentP}

C7_OfflineNoNetwork ==
    (~run_id \/ ~api_key \/ ~api_endpoint) => net = <<>>

\* C7 as amended - without the key or the endpoint no step attempts a network
\* call; with both but no run id the only calls attempted are those of
\* download_artifact, download_artifacts_for_run and get_training_data.
C7_NoCredentialNoNetwork ==
    /\ (~api_key \/ ~api_endpoint) => net = <<>>
    /\ (api_key /\ api_endpoint /\ ~run_id) =>
         \A i \in DOMAIN net :
             net[i].op \in {"download", "artifact_list", "training_data"}

\* In local mode (key and endpoint, no run id) get_training_data has just
\* called the backend, and its events were printed, not sent.
C7_Witness ==
    /\ api_key /\ api_endpoint /\ ~run_id
    /\ net = <<Call("training_data", "main", None)>>
    /\ console # <<>>

\* C8 - Offline mode echoes locally: with no run id, every call of log_message,
\* log_metric, log_progress or log_event prints to the console and attempts no
\* network call.
C8_OfflineEcho ==
    [][(~run_id /\ (LogMessage \/ LogMetric \/ LogProgress \/ LogEvent))
       => (console' # <<>> /\ net' = <<>>)]_vars

\* C9 - Shutdown is idempotent: the stop event is set only by the first call of
\* shutdown(), the caller enters the join and the final drain only from the
\* first call, and every later call attempts no network call and changes
\* nothing of the program's state.
C9_ShutdownIdempotent ==
    [][/\ (shutdowns' = shutdowns + 1 /\ shutdowns >= 1) =>
            (net' = <<>> /\ console' = <<>> /\ UNCHANGED program)
       /\ (stop_event' # stop_event) =>
            (~stop_event /\ shutdowns = 0 /\ shutdowns' = 1)
       /\ (pc["main"] = "idle" /\ pc'["main"] # "idle") =>
            (shutdowns = 0 /\ shutdowns' = 1)
      ]_vars

\* shutdown() has been called a second time, with a log message enqueued after
\* the first call still in the queue.
C9_Witness ==
    /\ shutdowns = 2
    /\ stop_event
    /\ pc["main"] = "idle"
    /\ log_queue # <<>>
    /\ console = <<>>

\* C10 - The first shutdown() always drains: the first call sets the stop event
\* and goes on to the join or the drain; when the join is over, with the
\* worker exited or not, the caller starts the drain; the caller is in the
\* drain only with the stop event set; and when shutdown() returns, the caller
\* has run _flush_metrics, _flush_logs and _flush_progress, once each, in that
\* order.
C10_FirstShutdownDrains ==
    [][/\ (shutdowns = 0 /\ shutdowns' = 1) =>
            (stop_event' /\ pc'["main"] \in {"sd_join", "fm_pop"}
               /\ flushed'["main"] = <<>>)
       /\ (pc["main"] = "sd_join" /\ pc'["main"] # "sd_join") =>
            pc'["main"] = "fm_pop"
       /\ pc'["main"] \notin {"idle", "g_pause", "g_wait", "g_stop"} => stop_event'
       /\ pc'["main"] = "sd_done" => flushed'["main"] = <<"M", "L", "P">>
       /\ ShutdownJustReturned' =>
            (flushed'["main"] = <<"M", "L", "P">> /\ pc["main"] = "sd_done")
       /\ flushed'["main"] # flushed["main"] => pc'["main"] # pc["main"]
      ]_vars

\* shutdown() has just returned after its drain while the worker, which did
\* not leave its loop within the join, is still running.
C10_Witness ==
    /\ ShutdownJustReturned
    /\ pc["worker"] \notin {"exited", "none"}
    /\ flushed["main"] = <<"M", "L", "P">>
    /\ sentL # <<>>

\* The log entries the caller enqueued that no outbound call has been made
\* for: still in the queue, or popped by a thread that has not yet called.
UnsentCallerLogs ==
    {log_queue[i].id : i \in {j \in DOMAIN log_queue : log_queue[j].text = "msg"}}
      \cup {msg[t].id : t \in {u \in Threads : msg[u].text = "msg"}}

\* C11 - Shutdown drain: when shutdown() has returned, an outbound call has
\* been made for every log entry the caller enqueued before invoking it,
\* whether or not the worker was still running when the join ended.
C11_ShutdownDrainsLogs ==
    ShutdownJustReturned => UnsentCallerLogs = {}

\* Metrics recorded one by one while the worker flushes, then shutdown.
NextMetrics ==
    \/ LogMetric
    \/ \E t \in Threads : FlushMetricsPost(t)
    \/ Drain

SpecMetrics == InitOnline /\ [][NextMetrics]_vars

\* The ids of the samples still in the metrics queue.
QueuedMetrics == {metrics_queue[i].id : i \in DOMAIN metrics_queue}

C14_LogFifo ==
    \A i, j \in DOMAIN sentL : i < j => sentL[i] < sentL[j]

\* The dispatcher with all three queues in use: the caller records a sample,
\* logs a message and reports a step in a row (log_metric, log_message,
\* log_progress, kit.py:170-182), with no step of the worker in between.
RecordRound ==
    /\ pc["main"] = "idle"
    /\ Online
    /\ metSeq < MaxRounds
    /\ \E m \in MetricInputs, s \in ProgressInputs :
         /\ metrics_queue' = Append(metrics_queue,
               [id |-> metSeq + 1, step |-> m[2], name |-> m[1], value |-> m[3]])
         /\ log_queue' = Append(log_queue, [id |-> logSeq + 1, text |-> "msg"])
         /\ progress_queue' = Append(progress_queue, [id |-> progSeq + 1, step |-> s])
    /\ metSeq' = metSeq + 1
    /\ logSeq' = logSeq + 1
    /\ progSeq' = progSeq + 1
    /\ console' = <<>>
    /\ net' = <<>>
    /\ UNCHANGED <<config, train, stop_event, flags, pc, locals, cmd, nCmds, gate, sent,
                   anyFail, flushed, shutdowns>>

NextWorker ==
    \/ RecordRound
    \/ \E t \in Threads : FlushMetricsPost(t)
    \/ \E t \in Threads : FlushProgressPost(t)
    \/ Drain

SpecWorker == InitOnline /\ [][NextWorker]_vars

\* The last step printed an error line.
ErrorLogged == \E i \in DOMAIN console : console[i][1] = "[SDK-ERR]"

\* C15 - Dispatcher failure isolation: the worker leaves its loop only at the
\* loop test and only with the stop event set; a failed call of a flush or of
\* the poll, and a failed signal file operation, print an error line, leave
\* the caller thread where it is and leave the worker inside its loop; after
\* the backoff the worker is back at the loop test, and from there, without
\* the stop event, it starts the next cycle.
C15_DispatcherIsolation ==
    [][/\ (pc'["worker"] = "exited" /\ pc["worker"] # "exited") =>
            (stop_event /\ pc["worker"] = "loop")
       /\ (pc'["worker"] # pc["worker"] /\ ~anyFail /\ anyFail') =>
            /\ ErrorLogged'
            /\ pc'["worker"] \in {"fl_pop", "poll", "apply", "backoff"}
            /\ pc'["main"] = pc["main"]
            /\ ret' = ret
       /\ (pc'["worker"] = "backoff" /\ pc["worker"] # "backoff") =>
            /\ pc["worker"] \in {"poll", "apply"}
            /\ ErrorLogged'
            /\ pc'["main"] = pc["main"]
            /\ ret' = ret
       /\ (pc["worker"] = "backoff" /\ pc'["worker"] # "backoff") =>
            pc'["worker"] = "loop"
       /\ (pc["worker"] = "loop" /\ pc'["worker"] # "loop" /\ ~stop_event) =>
            pc'["worker"] = "fm_pop"
      ]_vars

\* A call of the worker has failed, no shutdown was asked for, and the worker
\* has started another cycle.
C15_Witness ==
    /\ anyFail
    /\ shutdowns = 0
    /\ ~stop_event
    /\ pc["worker"] = "fm_pop"

\* C16 - The step gate never throws: no call of _on_step ends by raising.
C16_GateNeverThrows ==
    ret # "raised"

\* C17 - Lifecycle events: a call of log_event on an online client makes its
\* one outbound attempt within the call, on the caller thread, and puts
\* nothing on a queue; a failed attempt prints an error line and is not
\* raised; an event call is made by no other step than a step of the caller
\* thread that leaves the queues alone, so no event is sent later or again.
C17_EventsImmediate ==
    [][/\ LogEvent =>
            /\ Len(net') = 1
            /\ net'[1].op = "event"
            /\ net'[1].by = "main"
            /\ net'[1].data \in EventInputs
            /\ console'[1] = Line("[SDK] Event:", net'[1].data[1])
            /\ (anyFail' /\ ~anyFail) => ErrorLogged'
            /\ UNCHANGED <<queues, pc, ret, sent>>
       /\ \A i \in DOMAIN net' : net'[i].op = "event" =>
            /\ net'[i].by = "main"
            /\ pc["main"] = "idle" /\ pc' = pc
            /\ Len(net') = 1
            /\ UNCHANGED <<queues, sent>>
      ]_vars

\* An event has just been sent from the caller thread, the attempt failed and
\* was printed, and the caller is free to go on.
C17_Witness ==
    /\ net = <<Call("event", "main", <<"CUSTOM_EVENT", "info">>)>>
    /\ ErrorLogged
    /\ anyFail
    /\ pc["main"] = "idle"

\* ------------------------------------------- orchestrate_sb3_training
\* BaseAgent.orchestrate_sb3_training (agent.py:68-142), run by the caller
\* thread.  run is the line it has reached; the worker goes on beside it.
\* Everything the steps below leave alone.
TrainFrame ==
    UNCHANGED <<config, metrics_queue, progress_queue, stop_event, flags, pc,
                locals, cmd, nCmds, gate, metSeq, progSeq, shutdowns, sent, flushed>>

\* self.emit_event(name, status) at a line of orchestrate_sb3_training, which
\* goes on at line to (agent.py:54-55, kit.py:184-194).
EmitEvent(at, name, status, to) ==
    /\ run = at
    /\ pc["main"] = "idle"
    /\ \E ok \in BOOLEAN :
         /\ console' = EventLines(name, status, ok)
         /\ net' = EventCalls(name, status, "main")
         /\ anyFail' = (anyFail \/ (Online /\ ~ok))
    /\ emitted' = Append(emitted, name)
    /\ run' = to
    /\ UNCHANGED <<uploaded, log_queue, logSeq>>
    /\ TrainFrame

\* self.log(text) at a line of orchestrate_sb3_training (agent.py:49-52).
TrainLog(at, text, to) ==
    /\ run = at
    /\ pc["main"] = "idle"
    /\ LogMessageEffect(<<text>>, <<>>, <<>>, <<>>)
    /\ run' = to
    /\ UNCHANGED <<emitted, uploaded, anyFail>>
    /\ TrainFrame

\* A library or file operation of the try block that makes no SDK call: it
\* returns, raises an Exception, or is cut by a KeyboardInterrupt.
TrainEnds == {"returned", "exception", "interrupt"}

TrainAfter(how, to) ==
    IF how = "returned" THEN to
    ELSE IF how = "exception" THEN "failed" ELSE "interrupted"

\* The call starts: update_total_steps when the client is enabled
\* (agent.py:80-82, kit.py:196-202).
TrainBegin ==
    /\ run = "none"
    /\ pc["main"] = "idle"
    /\ \E ok \in BOOLEAN :
         IF Online
         THEN /\ net' = <<Call("total_steps", "main", total_timesteps)>>
              /\ console' = IF ok THEN <<>>
                             ELSE <<Line("[SDK-ERR]", "Total steps update failed")>>
              /\ anyFail' = (anyFail \/ ~ok)
         ELSE /\ net' = <<>>
              /\ console' = <<>>
              /\ UNCHANGED anyFail
    /\ run' = "start"
    /\ UNCHANGED <<emitted, uploaded, log_queue, logSeq>>
    /\ TrainFrame

TrainEmitStarted == EmitEvent("start", "TRAINING_LOOP_STARTED", "info", "learn")

\* model.learn (agent.py:103-108).
TrainLearn ==
    /\ run = "learn"
    /\ pc["main"] = "idle"
    /\ \E how \in TrainEnds : run' = TrainAfter(how, "completed")
    /\ console' = <<>>
    /\ net' = <<>>
    /\ UNCHANGED <<emitted, uploaded, log_queue, logSeq, anyFail>>
    /\ TrainFrame

TrainEmitCompleted ==
    EmitEvent("completed", "TRAINING_LOOP_COMPLETED", "success", "saving")

TrainEmitSaving == EmitEvent("saving", "MODEL_SAVING_STARTED", "info", "save")

\* model.save(final_model_path) (agent.py:112).
TrainSave ==
    /\ run = "save"
    /\ pc["main"] = "idle"
    /\ \E how \in TrainEnds : run' = TrainAfter(how, "upload")
    /\ console' = <<>>
    /\ net' = <<>>
    /\ UNCHANGED <<emitted, uploaded, log_queue, logSeq, anyFail>>
    /\ TrainFrame

\* An upload of the final model whose failure is not passed on.
TrainUploadSwallowed ==
    /\ run = "upload"
    /\ pc["main"] = "idle"
    /\ \E how \in UploadHows :
         /\ net' = UploadCalls(how)
         /\ console' = UploadLines(how)
         /\ uploaded' = UploadResult(how)
         /\ anyFail' = (anyFail \/ (Online /\ how = "call_failed"))
    /\ run' = "saved_ev"
    /\ UNCHANGED <<emitted, log_queue, logSeq>>
    /\ TrainFrame

\* self.kit.upload_artifact(final_model_path, "model") (agent.py:115): it
\* returns, skipped or done, or raises, or is cut while the call is out.
TrainUpload ==
    /\ run = "upload"
    /\ pc["main"] = "idle"
    /\ \E how \in UploadHows, cut \in BOOLEAN :
         IF cut /\ Online
         THEN /\ net' = <<Call("upload", "main", None)>>
              /\ console' = <<Line("[SDK]", "Uploading artifact")>>
              /\ uploaded' = "interrupted"
              /\ run' = "interrupted"
              /\ UNCHANGED anyFail
         ELSE /\ net' = UploadCalls(how)
              /\ console' = UploadLines(how)
              /\ uploaded' = UploadResult(how)
              /\ run' = IF UploadResult(how) = "raised" THEN "failed" ELSE "saved_ev"
              /\ anyFail' = (anyFail \/ (Online /\ how = "call_failed"))
    /\ UNCHANGED <<emitted, log_queue, logSeq>>
    /\ TrainFrame

TrainEmitSaved == EmitEvent("saved_ev", "MODEL_SAVED", "success", "norm")

\* "if is_new_model": the statistics file is written, uploaded and logged
\* (agent.py:118-122).  is_new_model is read here for the only time that
\* matters to the events, so it is chosen here.
TrainNorm ==
    /\ run = "norm"
    /\ pc["main"] = "idle"
    /\ \E is_new_model \in BOOLEAN, written \in BOOLEAN, how \in UploadHows :
         IF ~is_new_model
         THEN /\ run' = "cleanup"
              /\ console' = <<>>
              /\ net' = <<>>
              /\ UNCHANGED <<log_queue, logSeq, anyFail>>
         ELSE IF ~written
         THEN /\ run' = "failed"
              /\ console' = <<>>
              /\ net' = <<>>
              /\ UNCHANGED <<log_queue, logSeq, anyFail>>
         ELSE /\ LogMessageEffect(
                    IF UploadResult(how) = "raised" THEN <<>> ELSE <<"norm_saved">>,
                    UploadLines(how), <<>>, UploadCalls(how))
              /\ run' = IF UploadResult(how) = "raised" THEN "failed" ELSE "cleanup"
              /\ anyFail' = (anyFail \/ (Online /\ how = "call_failed"))
    /\ UNCHANGED <<emitted, uploaded>>
    /\ TrainFrame

\* The temporary model is removed if it is there (agent.py:124-125).
TrainCleanup ==
    /\ run = "cleanup"
    /\ pc["main"] = "idle"
    /\ \E how \in TrainEnds : run' = TrainAfter(how, "finish_ev")
    /\ console' = <<>>
    /\ net' = <<>>
    /\ UNCHANGED <<emitted, uploaded, log_queue, logSeq, anyFail>>
    /\ TrainFrame

TrainEmitFinished == EmitEvent("finish_ev", "RUN_FINISHED", "success", "shutdown")

\* self.kit.shutdown() at a line of orchestrate_sb3_training.
TrainShutdownAt(at, to) ==
    /\ run = at
    /\ ShutdownCallEffect
    /\ run' = to
    /\ UNCHANGED <<emitted, uploaded>>

\* The shutdown is over and orchestrate_sb3_training is left this way.
TrainLeaves(at, to) ==
    /\ run = at
    /\ pc["main"] = "idle"
    /\ run' = to
    /\ console' = <<>>
    /\ net' = <<>>
    /\ UNCHANGED <<emitted, uploaded, log_queue, logSeq, anyFail>>
    /\ TrainFrame

\* agent.py:130 and the return from the try block.
TrainShutdown == TrainShutdownAt("shutdown", "returning")
TrainReturn == TrainLeaves("returning", "returned")

\* An interrupt handler that falls into the failure events.
TrainInterruptedAsFailure == TrainLog("interrupted", "interrupted", "fail_ev")

\* "except KeyboardInterrupt" (agent.py:132-136): a log line and sys.exit(0).
TrainInterrupted == TrainLog("interrupted", "interrupted", "exit0")

\* "except Exception" (agent.py:137-142).
TrainFailLog == TrainLog("failed", "error", "fail_ev")
TrainEmitTrainingFailed ==
    EmitEvent("fail_ev", "AGENT_TRAINING_FAILED", "failure", "fail_ev2")
TrainEmitRunFailed == EmitEvent("fail_ev2", "RUN_FAILED", "failure", "fail_sd")
TrainFailShutdown == TrainShutdownAt("fail_sd", "raising")
TrainRaise == TrainLeaves("raising", "raised")

\* The interpreter ends and runs the registered kit.shutdown (agent.py:44).
TrainLeft == {"returned", "raised", "exit0"}
AtExitOf(r) ==
    IF r = "returned" THEN "returned_end"
    ELSE IF r = "raised" THEN "raised_end" ELSE "exit0_end"

AtExit ==
    /\ run \in TrainLeft
    /\ ShutdownCallEffect
    /\ run' = AtExitOf(run)
    /\ UNCHANGED <<emitted, uploaded>>

\* A training run from its call to the end of the process, with the worker
\* beside it, with or without credentials and run id.
InitTrain == Init /\ ~stop_file /\ ~pause_file /\ offset = 0

NextTrain ==
    \/ TrainBegin
    \/ TrainEmitStarted
    \/ TrainLearn
    \/ TrainEmitCompleted
    \/ TrainEmitSaving
    \/ TrainSave
    \/ TrainUpload
    \/ TrainEmitSaved
    \/ TrainNorm
    \/ TrainCleanup
    \/ TrainEmitFinished
    \/ TrainShutdown
    \/ TrainReturn
    \/ TrainInterrupted
    \/ TrainFailLog
    \/ TrainEmitTrainingFailed
    \/ TrainEmitRunFailed
    \/ TrainFailShutdown
    \/ TrainRaise
    \/ AtExit
    \/ JoinReturns
    \/ JoinTimeout
    \/ ShutdownReturn
    \/ \E t \in Threads : FlushMetricsPop(t)
    \/ \E t \in Threads : FlushLogsPop(t)
    \/ \E t \in Threads : FlushLogsPost(t)
    \/ \E t \in Threads : FlushProgressPop(t)
    \/ WorkerLoop
    \/ WorkerPoll
    \/ WorkerApply
    \/ WorkerSleep
    \/ WorkerBackoff

SpecTrain == InitTrain /\ [][NextTrain]_vars

\* ------------------------------------------------------------ C18, C19
HasEmitted(name) == \E i \in DOMAIN emitted : emitted[i] = name

\* The lines of the "except Exception" handler and what follows it.
InFailure ==
    run \in {"failed", "fail_ev", "fail_ev2", "fail_sd", "raising", "raised",
             "raised_end"}

\* C18 - In orchestrate_sb3_training MODEL_SAVED and RUN_FINISHED are emitted
\* only after upload_artifact of the final model has returned without error;
\* when that upload raises, the call goes through the failure handler, RUN_FAILED
\* is emitted before the exception reaches the caller, and neither MODEL_SAVED
\* nor RUN_FINISHED is ever emitted.
C18_CompleteAfterUpload ==
    /\ (HasEmitted("MODEL_SAVED") \/ HasEmitted("RUN_FINISHED")) =>
          uploaded \in {"ok", "skipped"}
    /\ HasEmitted("RUN_FINISHED") => HasEmitted("MODEL_SAVED")
    /\ uploaded = "raised" =>
          /\ InFailure
          /\ ~HasEmitted("MODEL_SAVED")
          /\ ~HasEmitted("RUN_FINISHED")
          /\ run \in {"fail_sd", "raising", "raised", "raised_end"} =>
                HasEmitted("RUN_FAILED")

\* The upload of the final model has failed and the exception has reached the
\* caller after the two failure events.
C18_Witness ==
    /\ uploaded = "raised"
    /\ run = "raised"
    /\ emitted = <<"TRAINING_LOOP_STARTED", "TRAINING_LOOP_COMPLETED",
                   "MODEL_SAVING_STARTED", "AGENT_TRAINING_FAILED", "RUN_FAILED">>

\* The lines of the "except KeyboardInterrupt" handler and what follows it.
InInterrupt == run \in {"interrupted", "exit0", "exit0_end"}

NoEndEvent ==
    /\ ~HasEmitted("AGENT_TRAINING_FAILED")
    /\ ~HasEmitted("RUN_FAILED")
    /\ ~HasEmitted("RUN_FINISHED")

\* C19 - A KeyboardInterrupt in the try block of orchestrate_sb3_training
\* leads to a log line and sys.exit(0): from the interrupt to the end of the
\* process no event is emitted, and none of AGENT_TRAINING_FAILED, RUN_FAILED
\* and RUN_FINISHED has been emitted.  An Exception in the try block leads
\* through the other handler, which emits RUN_FAILED before it shuts down and
\* re-raises, so before the process ends.
C19_InterruptIsNotFailure ==
    [][/\ (run' = "interrupted" /\ run # "interrupted") =>
            run \in {"learn", "save", "upload", "cleanup"}
       /\ InInterrupt => (InInterrupt' /\ emitted' = emitted /\ NoEndEvent)
       /\ InInterrupt' => NoEndEvent'
       /\ (run' = "failed" /\ run # "failed") =>
            /\ run \in {"learn", "save", "upload", "norm", "cleanup"}
            /\ ~HasEmitted("RUN_FAILED")'
       /\ run = "failed" => run' \in {"failed", "fail_ev"}
       /\ run = "fail_ev" => run' \in {"fail_ev", "fail_ev2"}
       /\ run = "fail_ev2" => run' \in {"fail_ev2", "fail_sd"}
       /\ run' \in {"fail_sd", "raising", "raised", "raised_end"} =>
            (HasEmitted("RUN_FAILED")' /\ ~HasEmitted("RUN_FINISHED")')
      ]_vars

\* The training loop was interrupted and the process has called sys.exit(0).
C19_Witness ==
    /\ run = "exit0"
    /\ emitted = <<"TRAINING_LOOP_STARTED">>
    /\ uploaded = None

\* ------------------------------------------------------------------ C20
QueuedLogs == {log_queue[i].id : i \in DOMAIN log_queue}

\* No id occurs twice in a sequence of ids.
NoRepeat(s) == \A i, j \in DOMAIN s : i # j => s[i] # s[j]

\* C20 - When the outbound call of _flush_metrics, _flush_logs or
\* _flush_progress fails, what was popped for it is dropped and the queues
\* are left as they are; no item is ever put back on a queue (a queue gains
\* only items that were never enqueued before), and no item is carried by a
\* second outbound call, whether from a later cycle or from the shutdown drain.
C20_NoRequeue ==
    [][/\ \A t \in Threads :
            (pc[t] \in {"fm_post", "fl_post", "fp_post"} /\ pc'[t] # pc[t]
               /\ ErrorLogged') =>
               /\ UNCHANGED queues
               /\ batch'[t] = <<>>
               /\ msg'[t] = NoMsg
               /\ latest_step'[t] = NoStep
       /\ \A i \in QueuedMetrics' \ QueuedMetrics : i > metSeq /\ i <= metSeq'
       /\ \A i \in QueuedLogs' \ QueuedLogs : i > logSeq /\ i <= logSeq'
       /\ \A i \in QueuedProgress' \ QueuedProgress : i > progSeq /\ i <= progSeq'
       /\ NoRepeat(sentM') /\ NoRepeat(sentL') /\ NoRepeat(sentP')
       /\ \A i \in DOMAIN sentM' : sentM'[i] \notin QueuedMetrics'
       /\ \A i \in DOMAIN sentL' : sentL'[i] \notin QueuedLogs'
       /\ \A i \in DOMAIN sentP' : sentP'[i] \notin QueuedProgress'
      ]_vars

\* The call for the one metric has just failed: the metric is in no batch and
\* on no queue, and the log message enqueued with it is still queued.
C20_Witness ==
    /\ console = <<Line("[SDK-ERR]", "Metrics push failed")>>
    /\ sentM = <<1>>
    /\ metrics_queue = <<>>
    /\ \A t \in Threads : batch[t] = <<>>
    /\ log_queue # <<>>

\* ------------------------------------------------------------------ C21
\* The step gate, the worker and shutdown together, on a client with a run
\* id, in a working directory without signal files: every flag there is was
\* made by the program.
InitFlags == InitOnline

NextFlags ==
    \/ GateBegin
    \/ GatePause
    \/ GateWait
    \/ GateStop
    \/ \E t \in Threads : FlushMetricsPop(t)
    \/ \E t \in Threads : FlushLogsPop(t)
    \/ \E t \in Threads : FlushLogsPost(t)
    \/ \E t \in Threads : FlushProgressPop(t)
    \/ \E t \in Threads : FlushProgressPost(t)
    \/ WorkerLoop
    \/ WorkerPoll
    \/ WorkerApply
    \/ WorkerSleep
    \/ WorkerBackoff
    \/ ShutdownCall
    \/ JoinReturns
    \/ JoinTimeout
    \/ ShutdownReturn

SpecFlags == InitFlags /\ [][NextFlags]_vars

\* C21 - The signal files change only when the worker applies a polled
\* command: no step of the caller thread (the step gate, shutdown and its
\* drain) and no other step of the worker (a flush, a poll that fails or
\* not, a sleep, a backoff, the loop test) changes one.  A pause file that
\* is there goes away only when a "resume" is applied, and a stop file that
\* is there never goes away: the program has no transition that consumes it.
C21_FlagsOnlyOnTransitions ==
    [][/\ flags' # flags =>
            /\ pc["worker"] = "apply"
            /\ pc'["worker"] = "sleep"
            /\ pc'["main"] = pc["main"]
            /\ cmd \in {"stop", "pause", "resume"}
       /\ (pc'["main"] # pc["main"] \/ GateWait \/ ShutdownCall) => UNCHANGED flags
       /\ (pc["worker"] # "apply" /\ pc'["worker"] # pc["worker"]) => UNCHANGED flags
       /\ (pause_file /\ ~pause_file') => cmd = "resume"
       /\ stop_file => stop_file'
      ]_vars

\* A pause file made by a command has outlived a failed call and a whole
\* shutdown: the worker has exited and the drain is over.
C21_Witness ==
    /\ pause_file
    /\ anyFail
    /\ pc["worker"] = "exited"
    /\ ShutdownJustReturned

\* ------------------------------------------------------------------ C22
\* The worker's sleep of three seconds against the gate's sleep of one
\* (kit.py:52, 77; callbacks.py:92): a gate that waits while the pause file
\* is gone tests the file before the worker's sleep is over.
WorkerSleepAfterGate ==
    /\ ~(pc["main"] = "g_wait" /\ ~pause_file)
    /\ WorkerSleep

\* What the worker thread does next, whatever that is.
WorkerRuns ==
    \/ WorkerLoop
    \/ FlushMetricsPop("worker")
    \/ FlushLogsPop("worker")
    \/ FlushLogsPost("worker")
    \/ FlushProgressPop("worker")
    \/ FlushProgressPost("worker")
    \/ WorkerPoll
    \/ WorkerApply
    \/ WorkerSleepAfterGate
    \/ WorkerBackoff

\* What the caller thread does next inside a call of _on_step.
GateRuns == GatePause \/ GateWait \/ GateStop

\* The step gate and the worker before any shutdown, both threads scheduled
\* fairly; the caller is free to make no further call of _on_step.
InitPause == InitOnline

NextPause == GateBegin \/ GateRuns \/ WorkerRuns

SpecPause ==
    InitPause /\ [][NextPause]_vars /\ WF_vars(GateRuns) /\ WF_vars(WorkerRuns)

\* The worker has just polled for a command.
Polled == net = <<Call("command", "worker", None)>>

ShutdownRuns ==
    \/ JoinReturns
    \/ JoinTimeout
    \/ FlushMetricsPop("main")
    \/ FlushLogsPop("main")
    \/ FlushLogsPost("main")
    \/ FlushProgressPop("main")
    \/ ShutdownReturn

\* Log messages, events and shutdowns, where a shutdown that has begun goes
\* on; nothing is assumed of the worker's scheduling.
SpecStop == InitOnline /\ [][NextLogs]_vars /\ WF_vars(ShutdownRuns)

\* C23 - Shutdown terminates.  A worker that keeps being scheduled leaves its
\* loop once the stop event is set: it finishes its cycle and its sleep and
\* exits at the loop test.  A shutdown() that has set the stop event returns,
\* after the join and the final drain, whether or not the worker is ever
\* scheduled again.
C23_ShutdownTerminates ==
    /\ WF_vars(WorkerRuns) => (stop_event ~> pc["worker"] = "exited")
    /\ (pc["main"] # "idle") ~> (pc["main"] = "idle" /\ ShutdownJustReturned)
    /\ [][pc'["worker"] = "exited" => (stop_event /\ pc["worker"] \in {"loop", "exited"})]_vars

\* shutdown() has returned while the worker is still in the backoff of a
\* failed poll.
C23_Witness ==
    /\ ShutdownJustReturned
    /\ stop_event
    /\ pc["worker"] = "backoff"
    /\ pc["main"] = "idle"

\* ------------------------------------------------------------------ C24
\* KitLogCallback(offset) as any caller may make it (callbacks.py:26-29): the
\* offset may lie beyond the counter of a learn() that starts again at 0.
\* The backend has one command left to hand out.
InitStage ==
    /\ \E reset \in BOOLEAN : InitFrom(MaxCmds - 1, 0..(MaxOffset + 1), reset)
    /\ ~stop_file

SpecStage == InitStage /\ [][Next]_vars

\* A step that begins a call of _on_step: the counter has gone up by one.
GateCall == num_timesteps' = num_timesteps + 1

\* The call has put exactly one update with this value on the progress queue.
EnqueuedProgress(v) ==
    /\ progress_queue' = Append(progress_queue, [id |-> progSeq + 1, step |-> v])
    /\ progSeq' = progSeq + 1

\* The absolute counter less the offset, not below 0, after the step.
StageStep == IF num_timesteps' > offset THEN num_timesteps' - offset ELSE 0

\* The percentage line: printed when the percentage of the absolute counter
\* has gone up, and only then (a call that raised on the way printed nothing).
AbsolutePct == (num_timesteps' * 100) \div total_timesteps

PctFromAbsolute ==
    ret' # "raised" =>
       IF AbsolutePct > last_logged_pct
       THEN /\ console' = <<Line("[SDK] Training Progress:", "pct")>>
            /\ last_logged_pct' = AbsolutePct
       ELSE /\ console' = <<>>
            /\ UNCHANGED last_logged_pct

C25_StopKeepsPause ==
    [][/\ (pc["worker"] = "apply" /\ cmd = "stop") => UNCHANGED pause_file
       /\ (pc["main"] = "g_wait" /\ pause_file) => pc'["main"] = "g_wait"
       /\ (pc["main"] = "g_wait" /\ pc'["main"] # "g_wait") => ~pause_file
       /\ (pause_file /\ ~pause_file') => (pc["worker"] = "apply" /\ cmd = "resume")
      ]_vars

\* The stop file has just been made by a command while the caller is in the
\* pause wait, and the caller is still there.
C25_Witness ==
    /\ pc["main"] = "g_wait"
    /\ pause_file
    /\ stop_file
    /\ console = <<Line("[SDK] Command Received:", "stop")>>

\* ------------------------------------------------------------------ C26
\* A construction that starts from a clean directory.
ConstructCleans ==
    /\ pc["main"] = "idle"
    /\ stop_event
    /\ num_timesteps' = offset
    /\ metrics_queue' = <<>>
    /\ log_queue' = <<>>
    /\ progress_queue' = <<>>
    /\ stop_event' = FALSE
    /\ pc' = [t \in Threads |-> IF t = "main" THEN "idle" ELSE "loop"]
    /\ batch' = [t \in Threads |-> <<>>]
    /\ msg' = [t \in Threads |-> NoMsg]
    /\ latest_step' = [t \in Threads |-> NoStep]
    /\ cmd' = None
    /\ agent' = FALSE
    /\ last_logged_pct' = 0 - 1
    /\ ret' = None
    /\ metSeq' = 0
    /\ logSeq' = 0
    /\ progSeq' = 0
    /\ shutdowns' = 0
    /\ sentM' = <<>>
    /\ sentL' = <<>>
    /\ sentP' = <<>>
    /\ anyFail' = FALSE
    /\ flushed' = [t \in Threads |-> <<>>]
    /\ console' = <<>>
    /\ net' = <<>>
    /\ stop_file' = FALSE
    /\ pause_file' = FALSE
    /\ UNCHANGED <<config, train, nCmds, offset>>

\* A later pipeline in the same working directory: the process of the first
\* has shut down, and KitClient() and KitLogCallback(offset) are made anew
\* (kit.py:17-44, callbacks.py:26-36).  Everything starts again but the
\* signal files, which no constructor touches, and the backend's commands.
Construct ==
    /\ pc["main"] = "idle"
    /\ stop_event
    /\ num_timesteps' = offset
    /\ metrics_queue' = <<>>
    /\ log_queue' = <<>>
    /\ progress_queue' = <<>>
    /\ stop_event' = FALSE
    /\ pc' = [t \in Threads |-> IF t = "main" THEN "idle" ELSE "loop"]
    /\ batch' = [t \in Threads |-> <<>>]
    /\ msg' = [t \in Threads |-> NoMsg]
    /\ latest_step' = [t \in Threads |-> NoStep]
    /\ cmd' = None
    /\ agent' = FALSE
    /\ last_logged_pct' = 0 - 1
    /\ ret' = None
    /\ metSeq' = 0
    /\ logSeq' = 0
    /\ progSeq' = 0
    /\ shutdowns' = 0
    /\ sentM' = <<>>
    /\ sentL' = <<>>
    /\ sentP' = <<>>
    /\ anyFail' = FALSE
    /\ flushed' = [t \in Threads |-> <<>>]
    /\ console' = <<>>
    /\ net' = <<>>
    /\ UNCHANGED <<config, train, flags, nCmds, offset>>

NextSticky == NextFlags \/ Construct

\* A client with a run id in a working directory without signal files, whose
\* backend has one command left to hand out.
InitSticky ==
    /\ InitFrom(MaxCmds - 1, {0}, FALSE)
    /\ Online /\ ~stop_file /\ ~pause_file

SpecSticky == InitSticky /\ [][NextSticky]_vars

\* C26 - The stop file is sticky: no step of the program takes it away, not
\* the worker applying a command, not the gate returning False, not
\* shutdown, not the construction of a later pipeline in the same directory;
\* so every call of the step gate that comes to its return on a step that is
\* a multiple of NSteps while the file is there returns False, in the first
\* pipeline and in a later one.
C26_StopSticky ==
    [][/\ stop_file => stop_file'
       /\ Construct => UNCHANGED flags
       /\ (pc["main"] = "g_stop" /\ pc'["main"] = "idle" /\ stop_file
             /\ num_timesteps % NSteps = 0) => ret' = "False"
      ]_vars

\* A later pipeline has returned False on the stop file that a command made
\* in the pipeline before it: its own first log message is the graceful stop.
C26_Witness ==
    /\ stop_file
    /\ ret = "False"
    /\ nCmds = MaxCmds
    /\ log_queue = <<[id |-> 1, text |-> "Graceful stop requested. Stopping training."]>>
    /\ sentL = <<>>

\* ------------------------------------------------------------------ C27
\* The first shutdown() is over and the worker has left its loop.
ShutDown == stop_event /\ pc["worker"] = "exited" /\ pc["main"] = "idle"

\* q has kept all it had, in order, and may have gained items at its end.
Grown(q, r) == Len(q) <= Len(r) /\ SubSeq(r, 1, Len(q)) = q

\* C27 - Once the first shutdown() has returned and the worker has exited,
\* that stays so; log_metric, log_message and log_progress still enqueue,
\* but no step takes an item off a queue or makes an outbound call, a later
\* shutdown() included: what is enqueued from then on stays queued.
C27_AfterShutdownNothingSent ==
    [][ShutDown =>
         /\ ShutDown'
         /\ net' = <<>>
         /\ UNCHANGED sent
         /\ Grown(metrics_queue, metrics_queue')
         /\ Grown(log_queue, log_queue')
         /\ Grown(progress_queue, progress_queue')
      ]_vars

\* A metric, a log message and a progress step were enqueued after the
\* shutdown and a second shutdown() has gone by: nothing was ever sent and
\* all three are still queued.
C27_Witness ==
    /\ ShutDown
    /\ shutdowns = MaxShutdowns
    /\ sentM = <<>> /\ sentL = <<>> /\ sentP = <<>>
    /\ metrics_queue # <<>>
    /\ log_queue # <<>>
    /\ progress_queue # <<>>

=============================================================================
